---------------------------- MODULE Spec2Model ----------------------------
(***************************************************************************)
(* Model of the refill hand-off: the dispatch server (server.py) with its  *)
(* SQLite table refill_requests, and the print agents (print_agent.py)     *)
(* that poll it.                                                           *)
(*                                                                         *)
(* Text values are tuples of code points, so that strip(), isdigit() and   *)
(* the TEXT comparison of ORDER BY are computed character by character.    *)
(*                                                                         *)
(* Every route of server.py is an "async def" without a single await: the  *)
(* event loop of the one uvicorn process runs each handler to completion   *)
(* before it starts the next, so a handler is one atomic step here.        *)
(***************************************************************************)
EXTENDS Integers, Sequences, FiniteSets, TLC

\* Bounds of the model.
MaxRecords == 2      \* rows the table may hold
MaxTick == 1         \* instants the wall clock may show: 0..MaxTick

---------------------------------------------------------------------------
\* Text helpers (Python str methods)

\* str.isspace() on one character
IsSpace(c) == c \in 9..13 \/ c \in 28..32 \/ c = 133 \/ c = 160

RECURSIVE LStrip(_)
LStrip(s) == IF s # << >> /\ IsSpace(Head(s)) THEN LStrip(Tail(s)) ELSE s

RECURSIVE RStrip(_)
RStrip(s) ==
    IF s # << >> /\ IsSpace(s[Len(s)]) THEN RStrip(SubSeq(s, 1, Len(s) - 1)) ELSE s

\* str.strip()
Strip(s) == RStrip(LStrip(s))

\* One character for which str.isdigit() is true: ASCII 0-9, but also the
\* superscript digits and the decimal digits of other scripts.
IsDigitChar(c) ==
    c \in 48..57 \/ c \in {178, 179, 185} \/ c \in 1632..1641 \/ c \in 1776..1785

\* str.isdigit(): false for the empty string
IsDigit(s) == s # << >> /\ \A i \in 1..Len(s) : IsDigitChar(s[i])

\* Binary (memcmp) comparison of two TEXT values, as SQLite's default
\* collation orders them: a < b
RECURSIVE TextLess(_, _)
TextLess(a, b) ==
    IF b = << >> THEN FALSE
    ELSE IF a = << >> THEN TRUE
    ELSE IF Head(a) # Head(b) THEN Head(a) < Head(b)
    ELSE TextLess(Tail(a), Tail(b))

TextLeq(a, b) == a = b \/ TextLess(a, b)

---------------------------------------------------------------------------
\* The store directory (module stores, imported by server.py)

Store157 == <<49, 53, 55>>
Store204 == <<50, 48, 52>>
STORES == {Store157, Store204}

NULL == << >>     \* SQL NULL of the printed_at column (never holds '')

\* uuid4()[:8]: the identifiers a request can carry; one more than the table
\* can hold, so that an id of no row always exists
Uuids == 1..(MaxRecords + 1)

\* datetime.now(timezone.utc): an instant is a tick, and two ticks make a second
Ticks == 0..MaxTick

\* The instants at which a claim is handled. printed_at is written by the
\* claim and read by no statement, so the claim's instant is not varied: it
\* is the last one, when every row has been created.
ClaimTicks == {MaxTick}

\* datetime.isoformat(): the seconds, the fraction only when it is not
\* zero, then the UTC offset "+00:00"
isoformat(t) ==
    <<48 + (t \div 2)>>
    \o (IF t % 2 = 0 THEN << >> ELSE <<46, 48 + (t % 2)>>)
    \o <<43, 48, 48, 58, 48, 48>>


---------------------------------------------------------------------------
\* State

VARIABLES
    db,        \* table refill_requests: id -> row
    last,      \* the latest call the server handled, with its response
    prev,      \* what the call before that one claimed, if it was a get_pending
    grants,    \* id -> times get_pending returned the row since it last became pending
    inflight,  \* ids of the rows whose submit response is on its way to the form
    config,    \* worker -> its command line: --store, --printer, --printer-port
    pc,        \* worker -> where it is in poll_and_print
    batch,     \* worker -> data["requests"] of its current cycle
    idx,       \* worker -> position of the for loop in batch
    success,   \* worker -> outcome of the transmission of the current request
    sent,      \* worker -> ids transmitted in the current cycle, in order
    out,       \* worker -> what it rendered and wrote for the current request
    attempts   \* id -> transmissions of the request so far, by outcome

vars == <<db, last, prev, grants, inflight, config, pc, batch, idx, success, sent, out, attempts>>
serverVars == <<db, last, prev, grants>>
workerVars == <<config, pc, batch, idx, success, sent, out, attempts>>

\* Print agents: both run with --store 157; the first has a printer, the
\* second none (console mode).
Workers == {1, 2}
Printer101 == <<49, 48, 46, 49>>
Agents ==
    [w \in Workers |->
        [store |-> Store157,
         printer_ip |-> IF w = 1 THEN Printer101 ELSE << >>,
         printer_port |-> 9100]]

WorkerStore(w) == config[w].store

\* the printer address taken to be set whatever --printer says
PrinterIpAlwaysSet(w) == Printer101

PrinterIp(w) == config[w].printer_ip
PrinterPort(w) == config[w].printer_port

NoCall == [op |-> "none", args |-> << >>, code |-> 0, rows |-> << >>, request_id |-> 0]

Call(op, args, code, rows, rid) ==
    [op |-> op, args |-> args, code |-> code, rows |-> rows, request_id |-> rid]

---------------------------------------------------------------------------
\* RefillRequest validators

Invalid == [ok |-> FALSE, value |-> << >>]
Valid(v) == [ok |-> TRUE, value |-> v]

validate_rx_number(v0) ==
    LET v == Strip(v0) IN
    IF ~IsDigit(v) THEN Invalid
    ELSE IF Len(v) # 7 THEN Invalid
    ELSE IF v[1] \notin {50, 52, 54, 56} THEN Invalid
    ELSE Valid(v)

validate_store_id(v0) ==
    LET v == Strip(v0) IN
    IF v \notin STORES THEN Invalid ELSE Valid(v)

---------------------------------------------------------------------------
\* SQL statements, as functions of the table

\* the INSERT with status 'printing'
InsertRowPrinting(rows, id, rx, sid, now, name) ==
    [i \in DOMAIN rows \cup {id} |->
        IF i = id
        THEN [id |-> id, rx_number |-> rx, store_id |-> sid, status |-> "printing",
              created_at |-> now, printed_at |-> NULL, patient_name |-> name]
        ELSE rows[i]]

\* INSERT INTO refill_requests (...) VALUES (?, ?, ?, 'pending', ?, ?)
InsertRow(rows, id, rx, sid, now, name) ==
    [i \in DOMAIN rows \cup {id} |->
        IF i = id
        THEN [id |-> id, rx_number |-> rx, store_id |-> sid, status |-> "pending",
              created_at |-> now, printed_at |-> NULL, patient_name |-> name]
        ELSE rows[i]]

\* the WHERE clause without its store_id condition
PendingIdsAnyStore(rows, sid) ==
    {i \in DOMAIN rows : rows[i].status = "pending"}

\* the WHERE clause taking printing rows as well
PendingOrPrintingIds(rows, sid) ==
    {i \in DOMAIN rows : rows[i].store_id = sid /\ rows[i].status \in {"pending", "printing"}}

\* the WHERE clause with status = 'printing'
PrintingIds(rows, sid) ==
    {i \in DOMAIN rows : rows[i].store_id = sid /\ rows[i].status = "printing"}

\* WHERE store_id = ? AND status = 'pending'
PendingIds(rows, sid) ==
    {i \in DOMAIN rows : rows[i].store_id = sid /\ rows[i].status = "pending"}

\* the SELECT with ORDER BY created_at DESC
OrderedByDesc(rows, q) ==
    \A i \in 1..Len(q) - 1 : TextLeq(rows[q[i + 1]].created_at, rows[q[i]].created_at)

\* ORDER BY created_at ASC: q is one order the statement may return the
\* matching rows in (rows with equal keys come in any order)
OrderedBy(rows, q) ==
    \A i \in 1..Len(q) - 1 : TextLeq(rows[q[i]].created_at, rows[q[i + 1]].created_at)

Orderings(rows, ids) ==
    {q \in [1..Cardinality(ids) -> ids] :
        /\ \A i, j \in DOMAIN q : i # j => q[i] # q[j]
        /\ OrderedBy(rows, q)}

\* SELECT id, rx_number, store_id, created_at, patient_name
Columns(r) ==
    [id |-> r.id, rx_number |-> r.rx_number, store_id |-> r.store_id,
     created_at |-> r.created_at, patient_name |-> r.patient_name]

\* the UPDATE stamping printed_at but leaving the status
UpdatePrintingStampOnly(rows, ids, now) ==
    [i \in DOMAIN rows |->
        IF i \in ids THEN [rows[i] EXCEPT !.printed_at = now] ELSE rows[i]]

\* UPDATE ... SET status = 'printing', printed_at = ? WHERE id IN (...)
UpdatePrinting(rows, ids, now) ==
    [i \in DOMAIN rows |->
        IF i \in ids
        THEN [rows[i] EXCEPT !.status = "printing", !.printed_at = now]
        ELSE rows[i]]

\* the UPDATE without its WHERE clause
UpdatePrintedEveryRow(rows, id) ==
    [i \in DOMAIN rows |-> [rows[i] EXCEPT !.status = "printed"]]

\* UPDATE ... SET status = 'printed' WHERE id = ?
UpdatePrinted(rows, id) ==
    [i \in DOMAIN rows |->
        IF i = id THEN [rows[i] EXCEPT !.status = "printed"] ELSE rows[i]]

\* the UPDATE also resetting patient_name
UpdatePendingClearsName(rows, id) ==
    [i \in DOMAIN rows |->
        IF i = id
        THEN [rows[i] EXCEPT !.status = "pending", !.printed_at = NULL,
                             !.patient_name = << >>]
        ELSE rows[i]]

\* the UPDATE leaving printed_at as it is
UpdatePendingKeepsStamp(rows, id) ==
    [i \in DOMAIN rows |->
        IF i = id THEN [rows[i] EXCEPT !.status = "pending"] ELSE rows[i]]

\* UPDATE ... SET status = 'pending', printed_at = NULL WHERE id = ?
UpdatePending(rows, id) ==
    [i \in DOMAIN rows |->
        IF i = id
        THEN [rows[i] EXCEPT !.status = "pending", !.printed_at = NULL]
        ELSE rows[i]]

\* grants after a statement took the table from rows to rows2: a row that
\* just became pending (again) has not been handed out since
Regrant(rows, rows2, g) ==
    [i \in DOMAIN rows2 |->
        IF i \notin DOMAIN rows THEN 0
        ELSE IF rows[i].status # "pending" /\ rows2[i].status = "pending" THEN 0
        ELSE g[i]]

---------------------------------------------------------------------------
\* Inputs the clients send

Rx2468024 == <<50, 52, 54, 56, 48, 50, 52>>
Rx1234567 == <<49, 50, 51, 52, 53, 54, 55>>
Store999 == <<57, 57, 57>>
NameJ == <<32, 74>>

\* request bodies of POST /api/refill: two valid ones, one with an unknown
\* store, one with a prescription number that starts with 1
Bodies ==
    {<<Rx2468024, Store157, NameJ>>, <<Rx2468024, Store204, NameJ>>,
     <<Rx2468024, Store999, NameJ>>, <<Rx1234567, Store157, NameJ>>}

\* RefillRequest(**body) validates
Validates(body) == validate_rx_number(body[1]).ok /\ validate_store_id(body[2]).ok

---------------------------------------------------------------------------
\* Route handlers of server.py. Each is one step of the event loop.

\* the store and the ids of a get_pending call that returned rows (nothing
\* for any other call)
Claimed(c) ==
    IF c.op = "get_pending" /\ c.rows # << >>
    THEN [store |-> c.args[1], ids |-> {c.rows[i].id : i \in DOMAIN c.rows}]
    ELSE [store |-> << >>, ids |-> {}]

Respond(c) == last' = c /\ prev' = Claimed(last)

\* POST /api/refill
submit_refill(rx0, sid0, name0, uuid, t) ==
    LET vr == validate_rx_number(rx0)
        vs == validate_store_id(sid0)
        args == <<rx0, sid0, name0>>
    IN  IF ~vr.ok \/ ~vs.ok
        THEN \* pydantic rejects the body: the handler never runs
             /\ Respond(Call("submit", args, 422, << >>, 0))
             /\ UNCHANGED <<db, grants>>
        ELSE IF uuid \in DOMAIN db
        THEN \* PRIMARY KEY violation: sqlite3.IntegrityError, nothing committed
             /\ Respond(Call("submit", args, 500, << >>, 0))
             /\ UNCHANGED <<db, grants>>
        ELSE /\ Cardinality(DOMAIN db) < MaxRecords
             /\ db' = InsertRow(db, uuid, vr.value, vs.value, isoformat(t), Strip(name0))
             /\ grants' = Regrant(db, db', grants)
             /\ Respond(Call("submit", args, 200, << >>, uuid))

\* GET /api/pending/{store_id}
get_pending(store_id) ==
    IF store_id \notin STORES
    THEN /\ Respond(Call("get_pending", <<store_id>>, 404, << >>, 0))
         /\ UNCHANGED <<db, grants>>
    ELSE IF PendingIds(db, store_id) = {}
    THEN /\ Respond(Call("get_pending", <<store_id>>, 200, << >>, 0))
         /\ UNCHANGED <<db, grants>>
    ELSE \E q \in Orderings(db, PendingIds(db, store_id)), t \in ClaimTicks :
            LET rows == [i \in DOMAIN q |-> Columns(db[q[i]])]
                ids == {rows[i].id : i \in DOMAIN rows}
            IN  /\ db' = UpdatePrinting(db, ids, isoformat(t))
                /\ grants' = [i \in DOMAIN db |->
                                 IF i \in ids THEN grants[i] + 1 ELSE grants[i]]
                /\ Respond(Call("get_pending", <<store_id>>, 200, rows, 0))

\* POST /api/printed/{request_id}
mark_printed(request_id) ==
    /\ db' = UpdatePrinted(db, request_id)
    /\ grants' = Regrant(db, db', grants)
    /\ Respond(Call("mark_printed", <<request_id>>, 200, << >>, request_id))

\* POST /api/print-error/{request_id}
mark_print_error(request_id) ==
    /\ db' = UpdatePending(db, request_id)
    /\ grants' = Regrant(db, db', grants)
    /\ Respond(Call("mark_print_error", <<request_id>>, 200, << >>, request_id))

---------------------------------------------------------------------------
\* Calls of clients other than the modelled print agents (the web form, an
\* agent of another store, a retried or delayed report)

\* The ids uuid4 may draw: one that a row already has, or one that no row
\* has. Ids are opaque (only ever tested for equality), so the least unused
\* one stands for every draw that misses the table.
Draws(rows) ==
    {u \in Uuids : u \in DOMAIN rows \/ \A v \in 1..(u - 1) : v \in DOMAIN rows}

\* uuid4() and datetime.now() are only evaluated for a body that validates,
\* and the instant is only stored when the INSERT succeeds
SubmitBody(body) ==
    \E uuid \in (IF Validates(body) THEN Draws(db) ELSE {1}) :
        \E t \in (IF Validates(body) /\ uuid \notin DOMAIN db THEN Ticks ELSE {0}) :
            /\ submit_refill(body[1], body[2], body[3], uuid, t)
            /\ UNCHANGED workerVars

Submit == \E body \in Bodies : SubmitBody(body) /\ UNCHANGED inflight

ClientGetPending ==
    \E sid \in {Store157, Store204, Store999} :
        get_pending(sid) /\ UNCHANGED <<inflight, workerVars>>

ClientMarkPrinted ==
    \E id \in Uuids : mark_printed(id) /\ UNCHANGED <<inflight, workerVars>>

ClientMarkPrintError ==
    \E id \in Uuids : mark_print_error(id) /\ UNCHANGED <<inflight, workerVars>>

---------------------------------------------------------------------------
\* generate_zpl_label of print_agent.py
\*
\* A label is the sequence of the lines of the f-string; a line is a
\* sequence of tokens, each a literal piece of the template or the text of
\* an interpolated value.

None == <<-1>>       \* the Python value None (a JSON null)
Missing == <<-2>>    \* a key the JSON object does not have

\* dict.get(key, default)
Get(v, default) == IF v = Missing THEN default ELSE v

Lit(s) == [lit |-> s, txt |-> << >>]
Txt(v) == [lit |-> "", txt |-> v]

\* str(v) inside an f-string: None is written "None"
Format(v) == IF v = None THEN <<78, 111, 110, 101>> ELSE v

\* created_at.replace("Z", "+00:00")
RECURSIVE ReplaceZ(_)
ReplaceZ(s) ==
    IF s = << >> THEN << >>
    ELSE IF Head(s) = 90 THEN <<43, 48, 48, 58, 48, 48>> \o ReplaceZ(Tail(s))
    ELSE <<Head(s)>> \o ReplaceZ(Tail(s))

\* datetime.fromisoformat(text): the instant, or ValueError for a text that
\* is not the isoformat of an instant
fromisoformat(text) ==
    IF \E t \in Ticks : isoformat(t) = text
    THEN [ok |-> TRUE, value |-> CHOOSE t \in Ticks : isoformat(t) = text]
    ELSE [ok |-> FALSE, value |-> 0]

\* strftime("%m/%d/%Y %I:%M %p"): the instant to the minute (120 ticks),
\* then " AM"
strftime(t) == <<48 + (t \div 120), 32, 65, 77>>

\* the try block of the timestamp without its except clause
TimeStrUncaught(created_at, now) ==
    IF created_at = None
    THEN [raised |-> TRUE, value |-> << >>]
    ELSE LET dt == fromisoformat(ReplaceZ(created_at))
         IN  IF dt.ok THEN [raised |-> FALSE, value |-> strftime(dt.value)]
             ELSE [raised |-> TRUE, value |-> << >>]

\* try: fromisoformat(...).astimezone().strftime(...)
\* except Exception: datetime.now().strftime(...)
\* (None has no replace(): AttributeError, caught as well)
TimeStr(created_at, now) ==
    IF created_at = None
    THEN [raised |-> FALSE, value |-> strftime(now)]
    ELSE LET dt == fromisoformat(ReplaceZ(created_at))
         IN  IF dt.ok THEN [raised |-> FALSE, value |-> strftime(dt.value)]
             ELSE [raised |-> FALSE, value |-> strftime(now)]

\* f"Name: {patient_name}" if patient_name else ""
PatientLine(patient_name) ==
    IF patient_name = None \/ patient_name = << >> THEN << >>
    ELSE <<78, 97, 109, 101, 58, 32>> \o patient_name

\* _vy: visual Y (top-down) to ZPL ^FO X (bottom-up)
_vy(visual_y, height) == 406 - visual_y - height

FO(visual_y, height) == <<Lit("^FO"), Lit(ToString(_vy(visual_y, height)))>>

Blank == << >>

\* the f-string, split at its newlines: it opens and closes with one
Template(rx_number, store_id, patient_line, time_str) ==
    << Blank,
       <<Lit("^XA")>>,
       <<Lit("^PW406")>>,
       <<Lit("^LL659")>>,
       <<Lit("^CF0,20")>>,
       <<Lit("^FWR")>>,
       Blank,
       <<Lit("~SD25")>>,
       Blank,
       FO(70, 34) \o <<Lit(",20^A0R,34,34^FD*** REFILL REQUEST ***^FS")>>,
       Blank,
       FO(110, 50) \o <<Lit(",20^A0R,50,50^FDRx# "), Txt(Format(rx_number)), Lit("^FS")>>,
       Blank,
       FO(166, 24) \o <<Lit(",20^A0R,24,24^FD"), Txt(patient_line), Lit("^FS")>>,
       Blank,
       FO(196, 20) \o <<Lit(",20^A0R,20,20^FDStore: "), Txt(Format(store_id)), Lit("^FS")>>,
       FO(196, 20) \o <<Lit(",300^A0R,20,20^FDSubmitted: "), Txt(time_str), Lit("^FS")>>,
       Blank,
       FO(224, 2) \o <<Lit(",20^GB2,620,2^FS")>>,
       FO(232, 22) \o <<Lit(",20^A0R,22,22^FDPlease pull and process.^FS")>>,
       Blank,
       FO(262, 50) \o <<Lit(",20^BY2,2,50^BCR,50,Y,N,N^FD"), Txt(Format(rx_number)), Lit("^FS")>>,
       Blank,
       <<Lit("^XZ")>>,
       Blank >>

\* a line strip() removes at either end of the text: nothing but whitespace
IsBlankLine(l) ==
    \A k \in DOMAIN l : l[k].lit = "" /\ \A j \in DOMAIN l[k].txt : IsSpace(l[k].txt[j])

\* the lines strip() leaves something of
TextLines(ls) == {n \in DOMAIN ls : ~IsBlankLine(ls[n])}

\* the template returned as it is, without .strip()
Unstripped(ls) == ls

\* """...""".strip(): what lies between the first and the last line with
\* text (the template is bound to v as a value, so it is built once)
StripLines(ls) ==
    LET Kept(v) ==
            IF TextLines(v) = {} THEN << >>
            ELSE SubSeq(v, CHOOSE n \in TextLines(v) : \A m \in TextLines(v) : n <= m,
                           CHOOSE n \in TextLines(v) : \A m \in TextLines(v) : m <= n)
    IN  CHOOSE zpl \in {Kept(v) : v \in {ls}} : TRUE

\* the label, or the exception that leaves the function; now is what
\* datetime.now() shows when the except clause runs
generate_zpl_label(rx_number, store_id, patient_name, created_at, now) ==
    LET time_str == TimeStr(created_at, now)
    IN  IF time_str.raised
        THEN [raised |-> TRUE, zpl |-> << >>]
        ELSE [raised |-> FALSE,
              zpl |-> StripLines(Template(rx_number, store_id,
                                          PatientLine(patient_name), time_str.value))]

---------------------------------------------------------------------------
\* The web form: the POST and, later, the arrival of its response

\* request bodies of the form of store 157: a valid one, and one with a
\* prescription number that starts with 1
FormBodies == {<<Rx2468024, Store157, NameJ>>, <<Rx1234567, Store157, NameJ>>}

\* the POST and its response taken as one step
StoreSubmit == \E body \in FormBodies : SubmitBody(body) /\ UNCHANGED inflight

\* the server handles the POST; its response is on its way
FormSubmit ==
    \E body \in FormBodies :
        /\ SubmitBody(body)
        /\ inflight' = IF last'.code = 200 THEN inflight \cup {last'.request_id} ELSE inflight

\* the form receives request_id
FormReceives ==
    \E id \in inflight :
        /\ inflight' = inflight \ {id}
        /\ UNCHANGED <<serverVars, workerVars>>

---------------------------------------------------------------------------
\* poll_and_print of print_agent.py, one worker

NoOutput == [zpl |-> << >>, now |-> 0, socket |-> FALSE]

\* what became of the transmissions of a request so far: how often its
\* label was printed ("never", "once", "again" for more than once), and
\* whether a transmission of it failed
NoAttempts == [printed |-> "never", failed |-> FALSE]

\* one more transmission of request rid, with its outcome
Attempted(a, rid, ok) ==
    [a EXCEPT ![rid] =
        IF ok THEN [@ EXCEPT !.printed = IF @ = "never" THEN "once" ELSE "again"]
        ELSE [@ EXCEPT !.failed = TRUE]]

\* requests.get(endpoint, timeout=10) is sent
WPoll(w) ==
    /\ pc[w] = "sleep"
    /\ pc' = [pc EXCEPT ![w] = "get"]
    /\ UNCHANGED <<serverVars, inflight, config, batch, idx, success, sent, out, attempts>>

\* the server answers; raise_for_status() ends the cycle on an error status
WGetPending(w) ==
    /\ pc[w] = "get"
    /\ get_pending(WorkerStore(w))
    /\ IF last'.code # 200 \/ last'.rows = << >>
       THEN /\ pc' = [pc EXCEPT ![w] = "sleep"]
            /\ batch' = [batch EXCEPT ![w] = << >>]
       ELSE /\ pc' = [pc EXCEPT ![w] = "transmit"]
            /\ batch' = [batch EXCEPT ![w] = last'.rows]
    /\ idx' = [idx EXCEPT ![w] = 1]
    /\ sent' = [sent EXCEPT ![w] = << >>]
    /\ UNCHANGED <<inflight, config, success, out, attempts>>

\* the request never reaches the server (requests.ConnectionError)
WPollUnreachable(w) ==
    /\ pc[w] = "get"
    /\ pc' = [pc EXCEPT ![w] = "sleep"]
    /\ UNCHANGED <<serverVars, inflight, config, batch, idx, success, sent, out, attempts>>

\* the server handles the request but the answer does not arrive in time
WPollTimeout(w) ==
    /\ pc[w] = "get"
    /\ get_pending(WorkerStore(w))
    /\ pc' = [pc EXCEPT ![w] = "sleep"]
    /\ UNCHANGED <<inflight, config, batch, idx, success, sent, out, attempts>>

\* the label of the current request, for what datetime.now() shows
Label(w, now) ==
    LET req == batch[w][idx[w]]
    IN  generate_zpl_label(req.rx_number, WorkerStore(w),
                           Get(req.patient_name, << >>), Get(req.created_at, << >>), now)

\* the instants datetime.now() may show where generate_zpl_label reads it
LabelTicks(w) ==
    IF TimeStrUncaught(Get(batch[w][idx[w]].created_at, << >>), 0).raised
    THEN Ticks ELSE {0}

\* sock.connect((printer_ip, printer_port)) takes a port of 0..65535 and
\* raises OverflowError for any other
PortInRange(port) == port \in 0..65535

\* what send_to_printer may return: True, or False after socket.error or
\* OSError (refused, unreachable, timed out, write failed)
SendOutcomes(ip, port) == BOOLEAN

\* does this worker's transmission leave poll_and_print's for loop by an
\* exception that send_to_printer does not catch?
SendRaises(w) == PrinterIp(w) # << >> /\ ~PortInRange(PrinterPort(w))

\* generate the label of the current request, then send_to_printer or
\* print_to_console
WTransmit(w) ==
    /\ pc[w] = "transmit"
    /\ ~SendRaises(w)
    /\ \E now \in LabelTicks(w) :
         LET label == Label(w, now)
         IN  /\ ~label.raised
             /\ \E ok \in (IF PrinterIp(w) # << >>
                           THEN SendOutcomes(PrinterIp(w), PrinterPort(w))
                           ELSE {TRUE}) :
                  /\ success' = [success EXCEPT ![w] = ok]
                  /\ out' = [out EXCEPT ![w] = [zpl |-> label.zpl, now |-> now,
                                                socket |-> PrinterIp(w) # << >>]]
                  /\ attempts' = Attempted(attempts, batch[w][idx[w]].id, ok)
    /\ sent' = [sent EXCEPT ![w] = Append(@, batch[w][idx[w]].id)]
    /\ pc' = [pc EXCEPT ![w] = "report"]
    /\ UNCHANGED <<serverVars, inflight, config, batch, idx>>

\* an exception leaves the for loop (generate_zpl_label raised, or
\* send_to_printer raised something that is not an OSError): the outer
\* "except Exception" logs it and the cycle is over
WTransmitRaises(w) ==
    /\ pc[w] = "transmit"
    /\ \/ SendRaises(w)
       \/ \E now \in LabelTicks(w) : Label(w, now).raised
    /\ attempts' = Attempted(attempts, batch[w][idx[w]].id, FALSE)
    /\ sent' = [sent EXCEPT ![w] = Append(@, batch[w][idx[w]].id)]
    /\ pc' = [pc EXCEPT ![w] = "sleep"]
    /\ UNCHANGED <<serverVars, inflight, config, batch, idx, success, out>>

\* next iteration of the for loop, or time.sleep(poll_interval)
NextRequest(w) ==
    /\ idx' = [idx EXCEPT ![w] = @ + 1]
    /\ pc' = [pc EXCEPT ![w] = IF idx[w] + 1 > Len(batch[w]) THEN "sleep" ELSE "transmit"]
    /\ success' = [success EXCEPT ![w] = FALSE]
    /\ out' = [out EXCEPT ![w] = NoOutput]
    /\ UNCHANGED <<inflight, config, batch, sent, attempts>>

\* the report reaches the server
WReport(w) ==
    /\ pc[w] = "report"
    /\ IF success[w]
       THEN mark_printed(batch[w][idx[w]].id)
       ELSE mark_print_error(batch[w][idx[w]].id)
    /\ NextRequest(w)

\* the report raises (server unreachable): caught, logged
WReportFailed(w) ==
    /\ pc[w] = "report"
    /\ NextRequest(w)
    /\ UNCHANGED serverVars

---------------------------------------------------------------------------
\* the state after construction, the agents started with command lines c
Configured(c) ==
    /\ db = << >>
    /\ grants = << >>
    /\ last = NoCall
    /\ prev = Claimed(NoCall)
    /\ inflight = {}
    /\ config = c
    /\ pc = [w \in Workers |-> "sleep"]
    /\ batch = [w \in Workers |-> << >>]
    /\ idx = [w \in Workers |-> 1]
    /\ success = [w \in Workers |-> FALSE]
    /\ sent = [w \in Workers |-> << >>]
    /\ out = [w \in Workers |-> NoOutput]
    /\ attempts = [i \in Uuids |-> NoAttempts]

Init == Configured(Agents)

\* The server under arbitrary clients: any route, any argument, any order
Next ==
    \/ Submit
    \/ ClientGetPending
    \/ ClientMarkPrinted
    \/ ClientMarkPrintError

Spec == Init /\ [][Next]_vars

\* The deployed system: the web form submits, the print agents poll
NextAgents ==
    \/ Submit
    \/ \E w \in Workers : WPoll(w)
    \/ \E w \in Workers : WGetPending(w)
    \/ \E w \in Workers : WPollUnreachable(w)
    \/ \E w \in Workers : WPollTimeout(w)
    \/ \E w \in Workers : WTransmit(w)
    \/ \E w \in Workers : WReport(w)
    \/ \E w \in Workers : WReportFailed(w)

SpecAgents == Init /\ [][NextAgents]_vars

\* The web form with its responses on their way, and any client polling
NextForm ==
    \/ FormSubmit
    \/ FormReceives
    \/ ClientGetPending

SpecForm == Init /\ [][NextForm]_vars

\* One store: its web form and its one agent
\* started in console mode, with a printer, or with a printer and a port
\* number that is no TCP port
StoreWorker == 1

StoreConfigs ==
    {[store |-> Store157, printer_ip |-> << >>, printer_port |-> 9100],
     [store |-> Store157, printer_ip |-> Printer101, printer_port |-> 9100],
     [store |-> Store157, printer_ip |-> Printer101, printer_port |-> 70000]}

InitStore == \E c \in StoreConfigs : Configured([Agents EXCEPT ![StoreWorker] = c])

NextStore ==
    \/ StoreSubmit
    \/ WPoll(StoreWorker)
    \/ WGetPending(StoreWorker)
    \/ WPollUnreachable(StoreWorker)
    \/ WPollTimeout(StoreWorker)
    \/ WTransmit(StoreWorker)
    \/ WTransmitRaises(StoreWorker)
    \/ WReport(StoreWorker)
    \/ WReportFailed(StoreWorker)

SpecStore == InitStore /\ [][NextStore]_vars

\* The same, the agent never stopping and the server answering its polls
\* again and again
SpecStoreFair ==
    /\ SpecStore
    /\ WF_vars(WPoll(StoreWorker))
    /\ SF_vars(WGetPending(StoreWorker))
    /\ WF_vars(WTransmit(StoreWorker) \/ WTransmitRaises(StoreWorker))
    /\ WF_vars(WReport(StoreWorker) \/ WReportFailed(StoreWorker))

\* The label of one request, whatever the JSON object holds
LabelRequests ==
    {[id |-> 1, rx_number |-> rx, store_id |-> Store157, created_at |-> c, patient_name |-> n] :
        rx \in {Rx2468024, << >>, None, <<94, 88, 90>>},
        c \in {isoformat(t) : t \in Ticks}
              \cup {<<48, 90>>, << >>, <<110, 111>>, <<48, 32>>, None, Missing},
        n \in {<< >>, <<74>>, <<32, 74>>, None, Missing}}

LabelConfigs ==
    {[store |-> sid, printer_ip |-> ip, printer_port |-> 9100] :
        sid \in {Store157, << >>}, ip \in {<< >>, Printer101}}

InitLabel ==
    \E c \in LabelConfigs, req \in LabelRequests :
        /\ db = << >>
        /\ grants = << >>
        /\ last = NoCall
        /\ prev = Claimed(NoCall)
        /\ inflight = {}
        /\ config = [Agents EXCEPT ![StoreWorker] = c]
        /\ pc = [w \in Workers |-> IF w = StoreWorker THEN "transmit" ELSE "sleep"]
        /\ batch = [w \in Workers |-> IF w = StoreWorker THEN <<req>> ELSE << >>]
        /\ idx = [w \in Workers |-> 1]
        /\ success = [w \in Workers |-> FALSE]
        /\ sent = [w \in Workers |-> << >>]
        /\ out = [w \in Workers |-> NoOutput]
        /\ attempts = [i \in Uuids |-> NoAttempts]

SpecLabel == InitLabel /\ [][WTransmit(StoreWorker)]_vars

\* The web form alone, on an empty table, with many prescription numbers
Rx2468012 == <<50, 52, 54, 56, 48, 49, 50>>

\* space, the digits 1 and 2, the letter a, ARABIC-INDIC DIGIT TWO
RxAlphabet == {32, 49, 50, 97, 1634}

RxBodies ==
    {[Rx2468012 EXCEPT ![k] = c] : k \in 1..7, c \in RxAlphabet}
    \cup {Rx2468012 \o <<c>> : c \in RxAlphabet}
    \cup {SubSeq(Rx2468012, 1, 6), << >>}
    \cup {Rx1234567, <<49, 50, 51, 52, 53, 54>>, <<50, 52, 54, 56, 48, 97, 97>>}

RxInputs == {pre \o v \o post : pre \in {<< >>, <<32>>}, v \in RxBodies, post \in {<< >>, <<32>>}}

SubmitForm ==
    \E rx0 \in RxInputs, sid0 \in STORES \cup {<<32>> \o Store157},
       name0 \in {<< >>, <<74>>} :
        \E uuid \in Draws(db), t \in (IF validate_rx_number(rx0).ok THEN Ticks ELSE {0}) :
            /\ db = << >>
            /\ submit_refill(rx0, sid0, name0, uuid, t)
            /\ UNCHANGED <<inflight, workerVars>>

SpecRx == Init /\ [][SubmitForm]_vars

---------------------------------------------------------------------------
\* Properties

RowIds(rows) == {rows[i].id : i \in DOMAIN rows}

\* a step in which the server handled a call that left a trace
ServerStep == serverVars' # serverVars

\* C2: two get_pending calls for one store handled one right after the other
\* return disjoint sets of ids.
C2_SuccessiveClaimsDisjoint ==
    (last.op = "get_pending" /\ prev.store = last.args[1])
        => RowIds(last.rows) \cap prev.ids = {}

\* the second of two successive calls for a store came back without the row
\* the first had returned
C2_Witness ==
    /\ last.op = "get_pending"
    /\ prev.store = last.args[1]
    /\ prev.ids # {}
    /\ last.code = 200
    /\ last.rows = << >>

\* C3: every change of a row's status is pending -> printing by get_pending,
\* printing -> printed by mark_printed, or printing -> pending by
\* mark_print_error.
C3_OnlyThreeTransitions ==
    [][\A i \in DOMAIN db \cap DOMAIN db' :
          db[i].status # db'[i].status =>
              \/ /\ db[i].status = "pending" /\ db'[i].status = "printing"
                 /\ last'.op = "get_pending"
              \/ /\ db[i].status = "printing" /\ db'[i].status = "printed"
                 /\ last'.op = "mark_printed"
              \/ /\ db[i].status = "printing" /\ db'[i].status = "pending"
                 /\ last'.op = "mark_print_error"]_vars

\* C4: a row whose status is printed keeps that status in every later state.
C4_PrintedIsTerminal ==
    [][\A i \in DOMAIN db :
          db[i].status = "printed" => (i \in DOMAIN db' /\ db'[i].status = "printed")]_vars

\* what C5 says of one get_pending call for store S that answered with rows
C5_ClaimExact(S) ==
    LET pending == {i \in DOMAIN db : db[i].store_id = S /\ db[i].status = "pending"}
        rows == last'.rows
    IN  /\ last'.code = 200
        /\ RowIds(rows) = pending
        /\ Len(rows) = Cardinality(pending)
        /\ \A k \in DOMAIN rows :
              /\ rows[k].rx_number = db[rows[k].id].rx_number
              /\ rows[k].store_id = S
              /\ rows[k].created_at = db[rows[k].id].created_at
              /\ rows[k].patient_name = db[rows[k].id].patient_name
        /\ DOMAIN db' = DOMAIN db
        /\ \A i \in pending :
              /\ db'[i].status = "printing"
              /\ db'[i].printed_at # NULL
        /\ \A i \in DOMAIN db \ pending : db'[i] = db[i]

\* C5 (as stated): every get_pending call returns exactly the pending rows of
\* its store, leaves them printing with printed_at set and changes no other
\* row; with nothing pending it returns an empty list, never an error.
C5_ClaimReturnsPending ==
    [][(ServerStep /\ last'.op = "get_pending") => C5_ClaimExact(last'.args[1])]_vars

\* C5 (amended): the same for a store of the directory; for any other
\* store_id the call is answered 404 and changes nothing.
C5_ClaimReturnsPendingOfKnownStore ==
    [][(ServerStep /\ last'.op = "get_pending") =>
          IF last'.args[1] \in STORES
          THEN C5_ClaimExact(last'.args[1])
          ELSE last'.code = 404 /\ last'.rows = << >> /\ db' = db]_vars

\* a call returned one row and left another row of the table alone
C5_Witness ==
    /\ last.op = "get_pending"
    /\ Len(last.rows) = 1
    /\ db[last.rows[1].id].status = "printing"
    /\ \E i \in DOMAIN db : i \notin RowIds(last.rows) /\ db[i].status = "pending"

\* C1: however the get_pending calls of the agents interleave, a row is
\* returned at most once for each time it becomes pending.
C1_AtMostOneGrant == \A i \in DOMAIN db : grants[i] <= 1

\* both agents hold an answer with rows in it and neither has started on it
C1_Witness ==
    /\ \A w \in Workers : pc[w] = "transmit" /\ idx[w] = 1 /\ batch[w] # << >>
    /\ RowIds(batch[1]) \cap RowIds(batch[2]) = {}

\* the instant a created_at text stands for
InstantOf(text) == CHOOSE t \in Ticks : isoformat(t) = text

\* the agent has transmitted the first requests of its batch, in the order
\* of the answer
TransmitsInOrder(w) ==
    /\ Len(sent[w]) <= Len(batch[w])
    /\ sent[w] = [k \in 1..Len(sent[w]) |-> batch[w][k].id]
    /\ pc[w] = "transmit" => Len(sent[w]) = idx[w] - 1
    /\ pc[w] = "report" => Len(sent[w]) = idx[w]

\* C6: the rows a get_pending call returns are in ascending order of creation
\* instant, a pending row of the store created before a returned row is
\* returned ahead of it in the same call, and the agent transmits its batch
\* in the order of the answer.
C6_OldestFirst ==
    [][/\ (ServerStep /\ last'.op = "get_pending") =>
            LET rows == last'.rows
                S == last'.args[1]
            IN  /\ \A a, b \in DOMAIN rows :
                      a < b => InstantOf(rows[a].created_at) <= InstantOf(rows[b].created_at)
                /\ \A b \in DOMAIN rows, i \in DOMAIN db :
                      ( /\ db[i].store_id = S
                        /\ db[i].status = "pending"
                        /\ InstantOf(db[i].created_at) < InstantOf(rows[b].created_at) )
                      => \E a \in 1..(b - 1) : rows[a].id = i
       /\ \A w \in Workers :
            /\ (pc[w] = "get" /\ pc'[w] = "transmit") => batch'[w] = last'.rows
            /\ TransmitsInOrder(w)']_vars

\* an agent has transmitted a batch of two requests, the one created at
\* second 0 before the one created half a second later
C6_Witness ==
    \E w \in Workers :
        /\ Len(batch[w]) = 2
        /\ Len(sent[w]) = 2
        /\ batch[w][1].created_at = isoformat(0)
        /\ batch[w][2].created_at = isoformat(1)

\* mark_printed answers whatever the id and the table
MarkPrintedTotal == \A id \in Uuids : ENABLED (mark_printed(id) /\ UNCHANGED <<inflight, workerVars>>)

\* C7: mark_printed always answers success; for an unknown id and for a row
\* that is already printed it changes nothing, and a second call for the same
\* id changes nothing.
C7_MarkPrintedIdempotent ==
    /\ []MarkPrintedTotal
    /\ [][(ServerStep /\ last'.op = "mark_printed") =>
            LET id == last'.args[1]
            IN  /\ last'.code = 200
                /\ DOMAIN db' = DOMAIN db
                /\ id \notin DOMAIN db => db' = db
                /\ (id \in DOMAIN db /\ db[id].status = "printed") => db' = db
                /\ (last.op = "mark_printed" /\ last.args[1] = id) => db' = db]_vars

\* mark_printed was called for a row that a claim had stamped and that is printed
C7_Witness ==
    /\ last.op = "mark_printed"
    /\ last.code = 200
    /\ last.args[1] \in DOMAIN db
    /\ db[last.args[1]].status = "printed"
    /\ db[last.args[1]].printed_at # NULL

\* C8: mark_print_error on a printing row makes it pending with printed_at
\* NULL and changes nothing else, and the next get_pending for its store
\* returns it; a second call, or a call with an unknown id, answers success
\* and changes nothing.
C8_MarkPrintFailed ==
    [][/\ (ServerStep /\ last'.op = "mark_print_error") =>
            LET id == last'.args[1]
            IN  /\ last'.code = 200
                /\ DOMAIN db' = DOMAIN db
                /\ (id \in DOMAIN db /\ db[id].status = "printing") =>
                      /\ db'[id] = [db[id] EXCEPT !.status = "pending", !.printed_at = NULL]
                      /\ \A j \in DOMAIN db \ {id} : db'[j] = db[j]
                /\ id \notin DOMAIN db => db' = db
                /\ (last.op = "mark_print_error" /\ last.args[1] = id) => db' = db
       /\ ( /\ ServerStep
            /\ last.op = "mark_print_error"
            /\ last.args[1] \in DOMAIN db
            /\ last'.op = "get_pending"
            /\ last'.args[1] = db[last.args[1]].store_id )
          => last.args[1] \in RowIds(last'.rows)]_vars

\* a row that the call before had claimed was reported failed and is pending
\* again with no printed_at
C8_Witness ==
    /\ last.op = "mark_print_error"
    /\ last.args[1] \in prev.ids
    /\ db[last.args[1]].status = "pending"
    /\ db[last.args[1]].printed_at = NULL

\* the rx_number the data model asks for: 7 characters, each 0-9, the first
\* one of 2, 4, 6, 8
WellFormedRx(v) ==
    /\ Len(v) = 7
    /\ \A k \in 1..Len(v) : v[k] \in 48..57
    /\ v[1] \in {50, 52, 54, 56}

\* C9: a submit either fails with a validation error (the rx_number is
\* malformed or the store unknown) and inserts nothing, or it inserts one row
\* under a fresh id, pending and without printed_at, returns that id and
\* leaves the rows that were there unchanged.
C9_SubmitRejectsOrInserts ==
    [][(ServerStep /\ last'.op = "submit") =>
          \/ /\ last'.code = 422
             /\ ~WellFormedRx(last'.args[1]) \/ last'.args[2] \notin STORES
             /\ db' = db
          \/ /\ last'.code = 200
             /\ last'.request_id \notin DOMAIN db
             /\ DOMAIN db' = DOMAIN db \cup {last'.request_id}
             /\ db'[last'.request_id].status = "pending"
             /\ db'[last'.request_id].printed_at = NULL
             /\ \A i \in DOMAIN db : db'[i] = db[i]]_vars

\* C10: a submitted rx_number is accepted exactly when it is 7 characters,
\* each 0-9, the first one of 2, 4, 6, 8, and the stored rx_number is the
\* submitted text.
C10_RxAcceptedIffWellFormed ==
    last.op = "submit" =>
        /\ (last.code = 200) <=> WellFormedRx(last.args[1])
        /\ last.code = 200 => db[last.request_id].rx_number = last.args[1]

\* C19: get_pending, mark_printed and mark_print_error keep the id,
\* rx_number, store_id, patient_name and created_at of every row and neither
\* insert nor delete a row; the set of ids only grows, and only by a submit;
\* status and printed_at are the only columns that change after the INSERT.
C19_OnlyStatusAndStampChange ==
    [][/\ DOMAIN db \subseteq DOMAIN db'
       /\ \A i \in DOMAIN db :
             /\ db'[i].id = i
             /\ Columns(db'[i]) = Columns(db[i])
       /\ DOMAIN db' # DOMAIN db => last'.op = "submit"
       /\ last'.op \in {"get_pending", "mark_printed", "mark_print_error"}
             => DOMAIN db' = DOMAIN db]_vars

\* every kind of statement has acted: one row was claimed and reported
\* printed, another was claimed and has just been reported failed
C19_Witness ==
    /\ last.op = "mark_print_error"
    /\ last.args[1] \in DOMAIN db
    /\ \E i \in DOMAIN db :
          /\ i # last.args[1]
          /\ db[i].status = "printed"
          /\ db[i].printed_at # NULL

\* C20: every pending row has printed_at NULL and every printing row has
\* printed_at set.
C20_StampFollowsStatus ==
    \A i \in DOMAIN db :
        /\ db[i].status = "pending" => db[i].printed_at = NULL
        /\ db[i].status = "printing" => db[i].printed_at # NULL

\* a row is printing with its stamp next to a row that a failure report
\* made pending again
C20_Witness ==
    /\ last.op = "mark_print_error"
    /\ last.args[1] \in DOMAIN db
    /\ db[last.args[1]].status = "pending"
    /\ \E i \in DOMAIN db : db[i].status = "printing" /\ db[i].printed_at # NULL

\* the tokens toks, one after the other, somewhere in the line
HasTokens(line, toks) ==
    \E k \in 1..(Len(line) - Len(toks) + 1) : SubSeq(line, k, k + Len(toks) - 1) = toks

\* some line of the label holds the tokens
LabelHas(zpl, toks) == \E n \in DOMAIN zpl : HasTokens(zpl[n], toks)

\* what C15 says of the label an agent has just rendered for request req
C15_Complete(zpl, req, now) ==
    LET rx == Txt(Format(req.rx_number))
        dt == IF Get(req.created_at, << >>) = None
              THEN [ok |-> FALSE, value |-> 0]
              ELSE fromisoformat(ReplaceZ(Get(req.created_at, << >>)))
        stamp == IF dt.ok THEN strftime(dt.value) ELSE strftime(now)
    IN  /\ zpl # << >>
        /\ zpl[1] = <<Lit("^XA")>>
        /\ zpl[Len(zpl)] = <<Lit("^XZ")>>
        /\ LabelHas(zpl, <<Lit(",20^A0R,50,50^FDRx# "), rx, Lit("^FS")>>)
        /\ LabelHas(zpl, <<Lit(",20^BY2,2,50^BCR,50,Y,N,N^FD"), rx, Lit("^FS")>>)
        /\ LabelHas(zpl, <<Lit(",300^A0R,20,20^FDSubmitted: "), Txt(stamp), Lit("^FS")>>)

\* C15: for every rx_number, store, patient_name (empty, null or missing
\* too) and created_at (unparsable, null or missing too) generate_zpl_label
\* raises nothing and returns a label that starts with ^XA, ends with ^XZ and
\* holds the Rx line and the barcode field of rx_number; a created_at that
\* does not parse only makes the timestamp the current time.
C15_LabelTotal ==
    \A w \in Workers :
        /\ pc[w] = "transmit" =>
              \A now \in LabelTicks(w) :
                  /\ ~Label(w, now).raised
                  /\ C15_Complete(Label(w, now).zpl, batch[w][idx[w]], now)
        /\ pc[w] = "report" => C15_Complete(out[w].zpl, batch[w][idx[w]], out[w].now)

\* a label was rendered for a request whose created_at is no timestamp and
\* whose patient_name is null, at an instant that is not the first
C15_Witness ==
    \E w \in Workers :
        /\ pc[w] = "report"
        /\ batch[w][idx[w]].created_at = <<110, 111>>
        /\ batch[w][idx[w]].patient_name = None
        /\ out[w].now = MaxTick
        /\ Len(out[w].zpl) > 2

\* C14 (as stated): no get_pending call returns a row while the response of
\* the submit that created it has not reached the submitter.
C14_ClaimedAfterSubmitReturned ==
    [][(ServerStep /\ last'.op = "get_pending") =>
          RowIds(last'.rows) \cap inflight = {}]_vars

\* C14 (amended): a get_pending call returns only rows that the INSERT of a
\* submit handled before it has committed; a row is pending, so claimable,
\* from the step that commits it, while its response is still on its way.
C14_ClaimedAfterInsertCommitted ==
    [][/\ (ServerStep /\ last'.op = "get_pending") =>
            RowIds(last'.rows) \subseteq DOMAIN db
       /\ (ServerStep /\ last'.op = "submit" /\ last'.code = 200) =>
            LET id == last'.request_id
            IN  /\ id \notin DOMAIN db
                /\ id \in DOMAIN db'
                /\ id \in inflight'
                /\ id \in PendingIds(db', db'[id].store_id)
       /\ inflight' \subseteq DOMAIN db']_vars

\* a get_pending call has returned a row whose request_id the submitter has
\* not received yet
C14_Witness ==
    /\ last.op = "get_pending"
    /\ RowIds(last.rows) \cap inflight # {}
    /\ \A i \in RowIds(last.rows) : db[i].status = "printing"

\* the agent was started without a printer address
ConsoleMode(w) == config[w].printer_ip = << >>

\* C18: an agent without a printer address renders the label of every
\* request of its batch, opens no connection to a printer, takes the attempt
\* for a success and reports the request printed; the row is printed once
\* the report has reached the server.
C18_ConsoleModePrintsAll ==
    [][\A w \in Workers : ConsoleMode(w) =>
          /\ pc[w] = "transmit" =>
                /\ pc'[w] \in {"transmit", "report"}
                /\ pc'[w] = "report" =>
                      /\ C15_Complete(out'[w].zpl, batch[w][idx[w]], out'[w].now)
                      /\ ~out'[w].socket
                      /\ success'[w]
                      /\ attempts'[batch[w][idx[w]].id].printed # "never"
                      /\ attempts'[batch[w][idx[w]].id].failed
                            = attempts[batch[w][idx[w]].id].failed
          /\ (pc[w] = "report" /\ pc'[w] # "report" /\ ServerStep) =>
                /\ last'.op = "mark_printed"
                /\ last'.args = <<batch[w][idx[w]].id>>
                /\ db'[batch[w][idx[w]].id].status = "printed"]_vars

\* the agent in console mode has reported the two requests of a batch and
\* both rows are printed, with no transmission failed
C18_Witness ==
    \E w \in Workers :
        /\ ConsoleMode(w)
        /\ pc[w] = "sleep"
        /\ Len(batch[w]) = 2
        /\ last.op = "mark_printed"
        /\ \A k \in DOMAIN batch[w] :
              /\ db[batch[w][k].id].status = "printed"
              /\ attempts[batch[w][k].id] = [printed |-> "once", failed |-> FALSE]

\* the request the for loop of agent w is at
Current(w) == batch[w][idx[w]].id

\* C16: in a poll cycle the agent transmits each request of its batch
\* exactly once (no retry in place) and then sends at most one report for
\* it: printed if and only if the transmission succeeded, print-error if and
\* only if it failed; a request whose transmission failed is never reported
\* printed.
C16_OneAttemptOneMatchingReport ==
    [][\A w \in Workers :
          \* when the cycle ends, every request of the batch was transmitted
          /\ (pc[w] \in {"transmit", "report"} /\ pc'[w] = "sleep") =>
                sent'[w] = [k \in 1..Len(batch[w]) |-> batch[w][k].id]
          \* one transmission of the current request, not transmitted before
          \* in this cycle; its outcome is what success holds
          /\ (pc[w] = "transmit" /\ pc'[w] # "transmit") =>
                /\ Current(w) \notin {sent[w][k] : k \in DOMAIN sent[w]}
                /\ sent'[w] = Append(sent[w], Current(w))
                /\ idx'[w] = idx[w]
                /\ pc'[w] = "report" =>
                      /\ success'[w] <=> attempts'[Current(w)].printed # attempts[Current(w)].printed
                      /\ ~success'[w] => attempts'[Current(w)].failed
                      /\ attempts'[Current(w)].printed = attempts[Current(w)].printed
                            => ~success'[w]
          \* a report is only sent for the request just transmitted, and the
          \* for loop moves on with it: no second report, no second attempt
          /\ pc[w] = "report" =>
                /\ Len(sent[w]) = idx[w]
                /\ sent[w][idx[w]] = Current(w)
                /\ pc'[w] # "report" =>
                      /\ sent'[w] = sent[w]
                      /\ idx'[w] = idx[w] + 1
                      /\ pc'[w] = (IF idx[w] < Len(batch[w]) THEN "transmit" ELSE "sleep")
                      /\ ServerStep =>
                            /\ last'.args = <<Current(w)>>
                            /\ last'.op = (IF success[w] THEN "mark_printed" ELSE "mark_print_error")
          \* the agent calls the report routes at no other point
          /\ (ServerStep /\ last'.op \in {"mark_printed", "mark_print_error"}) =>
                \E v \in Workers : pc[v] = "report" /\ pc'[v] # "report"]_vars

\* C17: a failed poll only ends the cycle; after a failed transmission or a
\* failed report the agent goes on to every remaining request of the batch,
\* then sleeps and polls again; the loop has no exit.
C17_NoFailureCutsTheCycle ==
    [][\A w \in Workers :
          /\ pc'[w] \in {"sleep", "get", "transmit", "report"}
          /\ pc[w] = "sleep" => pc'[w] \in {"sleep", "get"}
          /\ pc[w] = "get" => pc'[w] \in {"get", "sleep", "transmit"}
          /\ pc[w] = "transmit" => pc'[w] \in {"transmit", "report", "sleep"}
          /\ pc[w] = "report" => pc'[w] \in {"report", "transmit", "sleep"}
          \* the cycle only ends at the last request of the batch
          /\ (pc[w] \in {"transmit", "report"} /\ pc'[w] = "sleep") =>
                idx[w] = Len(batch[w])
          /\ (pc[w] = "report" /\ pc'[w] = "transmit") => idx'[w] = idx[w] + 1
          /\ (pc[w] = "transmit" /\ pc'[w] = "report") => idx'[w] = idx[w]]_vars

\* the part of C17 that holds: the agent polls again and again, and it can
\* always take a step
PollsForever ==
    /\ []<>(pc[StoreWorker] = "get")
    /\ [](ENABLED (\/ WPoll(StoreWorker) \/ WGetPending(StoreWorker)
                   \/ WPollUnreachable(StoreWorker) \/ WTransmit(StoreWorker)
                   \/ WTransmitRaises(StoreWorker) \/ WReportFailed(StoreWorker)))

\* C12: whatever the number of failed transmissions, each reported, before
\* it, the delivered report of a successful transmission leaves the row
\* printed, and printed it stays; no step in between touches its id,
\* rx_number, store_id, patient_name or created_at, so the row ends as it
\* does when the first transmission succeeds.
C12_RetryConverges ==
    [][/\ \A i \in DOMAIN db :
             /\ i \in DOMAIN db'
             /\ db'[i].id = i
             /\ Columns(db'[i]) = Columns(db[i])
             /\ db[i].status = "printed" => db'[i] = db[i]
       /\ \A w \in Workers :
             (pc[w] = "report" /\ pc'[w] # "report" /\ ServerStep) =>
                 /\ ~success[w] =>
                       /\ db'[Current(w)].status = "pending"
                       /\ attempts[Current(w)].failed
                 /\ success[w] =>
                       /\ db'[Current(w)] = [db[Current(w)] EXCEPT !.status = "printed"]
                       /\ Columns(db'[Current(w)]) = batch[w][idx[w]]]_vars

\* a row is printed whose label was printed once, after a transmission of
\* the request had failed and the failure had been reported
C12_Witness ==
    \E i \in DOMAIN db :
        /\ db[i].status = "printed"
        /\ attempts[i] = [printed |-> "once", failed |-> TRUE]
        /\ last = Call("mark_printed", <<i>>, 200, << >>, i)

\* agent w takes the step after a successful transmission in which its
\* report does not reach the server
SuccessReportLost(w) ==
    /\ pc[w] = "report"
    /\ success[w]
    /\ pc'[w] # "report"
    /\ ~ServerStep

\* C13 (as stated): when the report of a successful transmission is lost,
\* the server takes the request to be in need of printing still: it is among
\* the rows a get_pending for the store returns, so that a second label can
\* be printed.
C13_LostReportRedispatches ==
    [][\A w \in Workers :
          SuccessReportLost(w) => Current(w) \in PendingIds(db', WorkerStore(w))]_vars

\* C13 (amended): when the report of a successful transmission is lost, the
\* row stays printing; no get_pending returns a row whose label has been
\* printed, and no label is printed a second time.
C13_LostReportLeavesPrinting ==
    /\ [][/\ \A w \in Workers :
                SuccessReportLost(w) =>
                    /\ db'[Current(w)].status = "printing"
                    /\ Current(w) \notin PendingIds(db', WorkerStore(w))
          /\ (ServerStep /\ last'.op = "get_pending") =>
                \A i \in RowIds(last'.rows) : attempts[i].printed = "never"
          /\ \A i \in DOMAIN db :
                (attempts[i].printed # "never" /\ db[i].status # "pending")
                    => db'[i].status # "pending"]_vars
    /\ [](\A i \in Uuids : attempts[i].printed # "again")

\* the label of a row was printed, the report was lost, and the agent has
\* polled again and got nothing: the row is printing still
C13_Witness ==
    \E w \in Workers, i \in DOMAIN db :
        /\ pc[w] = "sleep"
        /\ db[i].status = "printing"
        /\ attempts[i].printed = "once"
        /\ last = Call("get_pending", <<WorkerStore(w)>>, 200, << >>, 0)
        /\ \A j \in DOMAIN db : db[j].status # "pending"

\* row i is pending and of the store the agent polls for
AwaitsClaim(i) ==
    /\ i \in DOMAIN db
    /\ db[i].store_id = WorkerStore(StoreWorker)
    /\ db[i].status = "pending"

\* C11: if the agent of a store keeps polling and the server answers its
\* polls again and again, every pending row of the store is eventually
\* returned by a get_pending call for the store, and for each time it
\* becomes pending it is returned by exactly one call.
C11_PendingClaimedExactlyOnce ==
    /\ \A i \in Uuids : AwaitsClaim(i) ~> (i \in DOMAIN db /\ grants[i] = 1)
    /\ [](\A i \in DOMAIN db :
            /\ grants[i] <= 1
            /\ db[i].status = "pending" => grants[i] = 0)

\* a row that was returned, failed and became pending again has been
\* returned a second time, once since it became pending
C11_Witness ==
    \E i \in DOMAIN db :
        /\ attempts[i].failed
        /\ db[i].status = "printing"
        /\ grants[i] = 1
        /\ pc[StoreWorker] = "transmit"
        /\ Current(StoreWorker) = i

---------------------------------------------------------------------------
\* The agent's process killed and started again

\* the process ends wherever it is (killed, power lost, an exception that
\* leaves main) and is started again with the same command line: what
\* poll_and_print held in its local variables is gone, the table is not
\* touched
WRestart(w) ==
    /\ pc' = [pc EXCEPT ![w] = "start"]
    /\ batch' = [batch EXCEPT ![w] = << >>]
    /\ idx' = [idx EXCEPT ![w] = 1]
    /\ success' = [success EXCEPT ![w] = FALSE]
    /\ sent' = [sent EXCEPT ![w] = << >>]
    /\ out' = [out EXCEPT ![w] = NoOutput]
    /\ UNCHANGED <<serverVars, inflight, config, attempts>>

\* the first requests.get of the new process: the loop polls before it
\* sleeps
WStart(w) ==
    /\ pc[w] = "start"
    /\ pc' = [pc EXCEPT ![w] = "get"]
    /\ UNCHANGED <<serverVars, inflight, config, batch, idx, success, sent, out, attempts>>

\* One store: its web form, its agent that may be restarted at any point,
\* and any other client polling (an agent of another store, a second agent
\* of this one)
NextRestart ==
    \/ StoreSubmit
    \/ ClientGetPending
    \/ WRestart(StoreWorker)
    \/ WStart(StoreWorker)
    \/ WPoll(StoreWorker)
    \/ WGetPending(StoreWorker)
    \/ WPollUnreachable(StoreWorker)
    \/ WPollTimeout(StoreWorker)
    \/ WTransmit(StoreWorker)
    \/ WTransmitRaises(StoreWorker)
    \/ WReport(StoreWorker)
    \/ WReportFailed(StoreWorker)

SpecRestart == InitStore /\ [][NextRestart]_vars

\* the server executes a mark_printed or mark_print_error call naming row i
ReportNaming(i) ==
    /\ ServerStep
    /\ last'.op \in {"mark_printed", "mark_print_error"}
    /\ last'.args = <<i>>

\* C21: a row whose status is printing keeps that status in every step that
\* is not the server's execution of a mark_printed or mark_print_error call
\* naming its id: no submit, no get_pending for any store, no restart of the
\* agent and no poll cycle changes it, so a row claimed by an agent that
\* stops before reporting stays printing.
C21_PrintingUntilReported ==
    [][\A i \in DOMAIN db :
          db[i].status = "printing" =>
              /\ i \in DOMAIN db'
              /\ db'[i].status # "printing" => ReportNaming(i)]_vars

\* an agent was handed a row, was restarted before it transmitted or
\* reported anything, and another store has been polled for since: the row
\* is printing still
C21_Witness ==
    \E i \in DOMAIN db :
        /\ pc[StoreWorker] = "start"
        /\ db[i].status = "printing"
        /\ grants[i] = 1
        /\ attempts[i] = NoAttempts
        /\ last = Call("get_pending", <<Store204>>, 200, << >>, 0)

===========================================================================
